---- MODULE Spec2Model ----
(***************************************************************************)
(* Session client of the Zenith browser extension: the useWebSocket hook   *)
(* (src/unnamed/part_000, imported by App.tsx as ./useWebSocket.ts) and    *)
(* the App / IntentBar submit path.                                        *)
(*                                                                         *)
(* The hook is modelled as an open component: its effect can be run,       *)
(* cleaned up and run again by React, its returned sendIntent callback can *)
(* be invoked by any holder, and the browser's WebSocket objects deliver   *)
(* open / message / error / close events as the WebSocket API defines.     *)
(* JavaScript is single threaded, so every handler is one atomic action.   *)
(***************************************************************************)
EXTENDS Integers, Sequences, FiniteSets, TLC

VARIABLES
    wsRef,     \* wsRef.current: 0 for null, else the index of a socket in socks
    socks,     \* every WebSocket object created so far, in creation order
    timers,    \* pending setTimeout(connect, ...) callbacks
    status,    \* useState "status"
    updates,   \* useState "updates"
    summary,   \* useState "summary"
    wire,      \* intent messages handed to an OPEN socket, in send order
    mounted,   \* TRUE between a run of the effect and its cleanup
    mounts,    \* number of times the effect has run
    last,      \* what the most recent handler was called with and what came
               \* out of it, for sendIntent and ws.onmessage (history variable,
               \* read by no action)
    received   \* well-formed state_update frames delivered since the last
               \* sendIntent call (history variable, read by no action)

vars == <<wsRef, socks, timers, status, updates, summary, wire, mounted, mounts,
          last, received>>

(***************************************************************************)
(* Bounds of the model.                                                    *)
(***************************************************************************)
\* WebSocket objects created in one behaviour
MaxSockets == 3
\* runs of the effect (React may re-run it after its cleanup)
MaxMounts == 2
\* length of updates
MaxHistory == 2
\* intent messages on the wire
MaxSends == 2

(***************************************************************************)
(* Program constants.                                                      *)
(***************************************************************************)
RECONNECT_INTERVAL_MS == 3000

\* The clock of the model advances by one reconnect delay at a time: what a
\* timer's callback does depends only on whether its delay has elapsed.
TickMs == RECONNECT_INTERVAL_MS

NULL == "null"
UNDEFINED == "undefined"
NoError == "none"
NoCall == [op |-> "none"]

(***************************************************************************)
(* A text is a sequence of words and white-space characters, so that       *)
(* trim() is computed.                                                     *)
(***************************************************************************)
SP == " "

\* "find cheapest gpu"
FindCheapestGpu == <<"find", SP, "cheapest", SP, "gpu">>

Inputs ==
    { <<>>, <<SP>>, <<SP, SP>>, FindCheapestGpu, <<SP>> \o FindCheapestGpu,
      FindCheapestGpu \o <<SP>>, <<SP, SP>> \o FindCheapestGpu \o <<SP>> }

RECURSIVE TrimStart(_)
TrimStart(s) ==
    IF s # <<>> /\ Head(s) = SP THEN TrimStart(Tail(s)) ELSE s

RECURSIVE TrimEnd(_)
TrimEnd(s) ==
    IF s # <<>> /\ s[Len(s)] = SP THEN TrimEnd(SubSeq(s, 1, Len(s) - 1)) ELSE s

trim(s) == TrimEnd(TrimStart(s))

Intents == { trim(v) : v \in Inputs } \ { <<>> }

(***************************************************************************)
(* Inbound frames.  event.data is text; a frame is either text that is not *)
(* JSON or the text of a JSON value.                                       *)
(***************************************************************************)
SubTask(id, desc, st) == [id |-> id, desc |-> desc, status |-> st]

StateUpdateParse ==
    [type |-> "state_update", node |-> "planner", thought |-> "planning",
     node_status |-> "parse_intent", current_task_index |-> 0, total_tasks |-> 1,
     sub_tasks |-> <<SubTask(1, "search ebay", "pending")>>]

StateUpdateBrowse ==
    [type |-> "state_update", node |-> "browser", thought |-> "browsing",
     node_status |-> "browser_action", current_task_index |-> 0, total_tasks |-> 1,
     sub_tasks |-> <<SubTask(1, "search ebay", "running")>>]

StateUpdates == { StateUpdateParse, StateUpdateBrowse }

\* Further state_update frames, received by the surface in HudSpec only: a
\* plan of two subtasks, and a final frame that carries no subtask.
StateUpdateAdvance ==
    [type |-> "state_update", node |-> "planner", thought |-> "next",
     node_status |-> "advance", current_task_index |-> 1, total_tasks |-> 2,
     sub_tasks |-> <<SubTask(1, "search ebay", "done"),
                     SubTask(2, "compare prices", "pending")>>]

StateUpdateDone ==
    [type |-> "state_update", node |-> "summarizer", thought |-> "finished",
     node_status |-> "done", current_task_index |-> 0, total_tasks |-> 0,
     sub_tasks |-> <<>>]

HudStateUpdates == StateUpdates \cup { StateUpdateAdvance, StateUpdateDone }

Results ==
    { [type |-> "result", summary |-> "Found RTX 5070 at $599"],
      [type |-> "result", summary |-> ""] }

JsNull == [jsnull |-> TRUE]
JsNumber == [jsnumber |-> 42]
JsEmptyObject == [node |-> "planner"]
JsOtherType == [type |-> "ping"]

NotJson == [syntax |-> "invalid"]
JsonText(v) == [syntax |-> "json", value |-> v]

WellFormedFrames == { JsonText(v) : v \in StateUpdates \cup Results }

UnrecognizedFrames ==
    { NotJson, JsonText(JsNull), JsonText(JsNumber), JsonText(JsEmptyObject),
      JsonText(JsOtherType) }

Frames == WellFormedFrames \cup UnrecognizedFrames

HudFrames == { JsonText(v) : v \in HudStateUpdates \cup Results }

\* JSON.parse(event.data): throws SyntaxError on text that is not JSON.
JSONParse(data) ==
    IF data.syntax = "json"
    THEN [threw |-> FALSE, value |-> data.value]
    ELSE [threw |-> TRUE, value |-> JsNull]

\* msg.type: reading a property of null throws TypeError; a property the
\* value does not have reads as undefined.
GetTypeThrows(msg) == msg = JsNull

GetType(msg) == IF "type" \in DOMAIN msg THEN msg.type ELSE UNDEFINED

\* The try block of ws.onmessage: the frame's effect on updates and summary.
\* Anything thrown inside the block is caught and ignored.
MessageKindLax(data) ==
    LET parsed == JSONParse(data) IN
    IF parsed.threw \/ GetTypeThrows(parsed.value) THEN "caught"
    ELSE IF GetType(parsed.value) = "result" THEN "result"
    ELSE "state_update"

MessageKind(data) ==
    LET parsed == JSONParse(data) IN
    IF parsed.threw \/ GetTypeThrows(parsed.value) THEN "caught"
    ELSE IF GetType(parsed.value) = "state_update" THEN "state_update"
    ELSE IF GetType(parsed.value) = "result" THEN "result"
    ELSE "ignored"

onmessageUpdatesPrepend(prev, data) ==
    IF MessageKind(data) = "state_update"
    THEN <<JSONParse(data).value>> \o prev
    ELSE prev

onmessageUpdates(prev, data) ==
    IF MessageKind(data) = "state_update"
    THEN Append(prev, JSONParse(data).value)
    ELSE prev

onmessageSummaryKeepsFirst(prev, data) ==
    IF MessageKind(data) = "result" /\ prev = NULL
    THEN JSONParse(data).value.summary
    ELSE prev

onmessageSummary(prev, data) ==
    IF MessageKind(data) = "result" THEN JSONParse(data).value.summary ELSE prev

(***************************************************************************)
(* The browser's WebSocket object, as far as the hook uses it.             *)
(***************************************************************************)
ReadyStates == { "CONNECTING", "OPEN", "CLOSING", "CLOSED" }

NewWebSocket == [readyState |-> "CONNECTING"]

\* WebSocket.close(): starts the closing handshake of a socket that is
\* CONNECTING or OPEN; does nothing on one that is CLOSING or CLOSED.
wsClose(sock) ==
    IF sock.readyState \in { "CONNECTING", "OPEN" }
    THEN [sock EXCEPT !.readyState = "CLOSING"]
    ELSE sock

\* WebSocket.send(): throws InvalidStateError while CONNECTING, transmits
\* while OPEN, silently discards while CLOSING or CLOSED.
wsSendThrows(sock) == sock.readyState = "CONNECTING"

wsSendTransmits(sock) == sock.readyState = "OPEN"

IsOpen(ref) == ref # 0 /\ socks[ref].readyState = "OPEN"

TypeOK ==
    /\ wsRef \in 0..Len(socks)
    /\ \A i \in 1..Len(socks) : socks[i].readyState \in ReadyStates
    /\ \A t \in timers : t.sock \in 1..Len(socks) /\ t.remaining \in 0..RECONNECT_INTERVAL_MS
    /\ status \in { "connecting", "connected", "disconnected" }
    /\ Len(updates) <= MaxHistory
    /\ Len(wire) <= MaxSends
    /\ mounted \in BOOLEAN
    /\ mounts \in 0..MaxMounts
    /\ last.op \in { "none", "sendIntent", "onmessage", "handleSubmit", "onerror" }

Init ==
    /\ wsRef = 0
    /\ socks = <<>>
    /\ timers = {}
    /\ status = "connecting"
    /\ updates = <<>>
    /\ summary = NULL
    /\ wire = <<>>
    /\ mounted = FALSE
    /\ mounts = 0
    /\ last = NoCall
    /\ received = <<>>

(***************************************************************************)
(* connect(): returns at once when the current socket is OPEN, otherwise   *)
(* creates a socket, stores it in wsRef and attaches the four handlers.    *)
(***************************************************************************)
connectReturnsEarlyNever(ref, ss) == FALSE

connectReturnsEarly(ref, ss) == ref # 0 /\ ss[ref].readyState = "OPEN"

connect ==
    IF connectReturnsEarly(wsRef, socks)
    THEN UNCHANGED <<wsRef, socks>>
    ELSE /\ Len(socks) < MaxSockets
         /\ socks' = Append(socks, NewWebSocket)
         /\ wsRef' = Len(socks) + 1

\* useEffect body: connect().
EffectMount ==
    /\ ~mounted
    /\ mounts < MaxMounts
    /\ connect
    /\ mounted' = TRUE
    /\ mounts' = mounts + 1
    /\ last' = NoCall
    /\ UNCHANGED <<timers, status, updates, summary, wire, received>>

\* useEffect cleanup: wsRef.current?.close().
cleanupSocks(ref, ss) ==
    IF ref = 0 THEN ss ELSE [ss EXCEPT ![ref] = wsClose(ss[ref])]

EffectCleanup ==
    /\ mounted
    /\ socks' = cleanupSocks(wsRef, socks)
    /\ mounted' = FALSE
    /\ last' = NoCall
    /\ UNCHANGED <<wsRef, timers, status, updates, summary, wire, mounts, received>>

\* ws.onopen
onopenStatus(prev) == "connected"

\* ws.onclose: setStatus("disconnected"); setTimeout(connect, RECONNECT_INTERVAL_MS)
oncloseStatus(prev) == "disconnected"

oncloseTimersNone(prev, s) == prev

oncloseTimers(prev, s) == prev \cup { [sock |-> s, remaining |-> RECONNECT_INTERVAL_MS] }

\* ws.onerror: ws.close()
onerrorSock(sock) == wsClose(sock)

onerrorTimersRetryNow(prev, s) == prev \cup { [sock |-> s, remaining |-> 0] }

onerrorTimers(prev, s) == prev

\* The handshake of socket s completes: readyState becomes OPEN and the open
\* event is dispatched.
OpenEventClears(s) ==
    /\ socks[s].readyState = "CONNECTING"
    /\ socks' = [socks EXCEPT ![s].readyState = "OPEN"]
    /\ status' = onopenStatus(status)
    /\ updates' = <<>>
    /\ last' = NoCall
    /\ UNCHANGED <<wsRef, timers, summary, wire, mounted, mounts, received>>

OpenEvent(s) ==
    /\ socks[s].readyState = "CONNECTING"
    /\ socks' = [socks EXCEPT ![s].readyState = "OPEN"]
    /\ status' = onopenStatus(status)
    /\ last' = NoCall
    /\ UNCHANGED <<wsRef, timers, updates, summary, wire, mounted, mounts, received>>

\* A frame arrives on socket s; message events are dispatched only while OPEN.
MessageEvent(s, data) ==
    /\ socks[s].readyState = "OPEN"
    /\ Len(onmessageUpdates(updates, data)) <= MaxHistory
    /\ updates' = onmessageUpdates(updates, data)
    /\ summary' = onmessageSummary(summary, data)
    /\ received' = IF data \in { JsonText(v) : v \in HudStateUpdates }
                   THEN Append(received, data.value)
                   ELSE received
    /\ last' = [op |-> "onmessage", recognized |-> (data \in HudFrames)]
    /\ UNCHANGED <<wsRef, socks, timers, status, wire, mounted, mounts>>

\* The connection of socket s ends without failure (closing handshake done):
\* readyState becomes CLOSED and the close event is dispatched.
CloseEvent(s) ==
    /\ socks[s].readyState \in { "OPEN", "CLOSING" }
    /\ socks' = [socks EXCEPT ![s].readyState = "CLOSED"]
    /\ status' = oncloseStatus(status)
    /\ timers' = oncloseTimers(timers, s)
    /\ last' = NoCall
    /\ UNCHANGED <<wsRef, updates, summary, wire, mounted, mounts, received>>

\* The connection of socket s fails (refused, dropped, protocol error):
\* readyState becomes CLOSED, then the error event and the close event are
\* dispatched, in that order, in the same task.
ErrorEvent(s) ==
    /\ socks[s].readyState \in { "CONNECTING", "OPEN", "CLOSING" }
    /\ socks' = [socks EXCEPT ![s] = onerrorSock([socks[s] EXCEPT !.readyState = "CLOSED"])]
    /\ status' = oncloseStatus(status)
    /\ timers' = oncloseTimers(onerrorTimers(timers, s), s)
    /\ last' = [op |-> "onerror"]
    /\ UNCHANGED <<wsRef, updates, summary, wire, mounted, mounts, received>>

\* Time passes by one tick; a timer that is due may still be waiting to run.
Max(a, b) == IF a >= b THEN a ELSE b

Tick ==
    /\ \E t \in timers : t.remaining > 0
    /\ timers' = { [t EXCEPT !.remaining = Max(0, t.remaining - TickMs)] : t \in timers }
    /\ last' = NoCall
    /\ UNCHANGED <<wsRef, socks, status, updates, summary, wire, mounted, mounts, received>>

\* setTimeout never runs its callback before the delay has elapsed.
TimerDue(t) == t.remaining = 0

TimerFiresRepeating(t) ==
    /\ TimerDue(t)
    /\ timers' = (timers \ { t }) \cup { [t EXCEPT !.remaining = RECONNECT_INTERVAL_MS] }
    /\ connect
    /\ last' = NoCall
    /\ UNCHANGED <<status, updates, summary, wire, mounted, mounts, received>>

TimerFires(t) ==
    /\ TimerDue(t)
    /\ timers' = timers \ { t }
    /\ connect
    /\ last' = NoCall
    /\ UNCHANGED <<status, updates, summary, wire, mounted, mounts, received>>

(***************************************************************************)
(* sendIntent(intent): setUpdates([]); setSummary(null);                   *)
(* wsRef.current?.send(JSON.stringify({type: "intent", payload: intent})). *)
(* The two state updates are queued before send() runs, so they take       *)
(* effect even when send() throws.                                         *)
(***************************************************************************)
sendIntentUpdatesKeep(prev) == prev

sendIntentUpdates(prev) == <<>>

sendIntentSummary(prev) == NULL

IntentMessage(intent) == [type |-> "intent", payload |-> intent]

sendIntentWireTwice(prev, ref, ss, intent) ==
    IF ref # 0 /\ wsSendTransmits(ss[ref])
    THEN prev \o <<IntentMessage(intent), IntentMessage(intent)>>
    ELSE prev

sendIntentWire(prev, ref, ss, intent) ==
    IF ref # 0 /\ wsSendTransmits(ss[ref])
    THEN Append(prev, IntentMessage(intent))
    ELSE prev

sendIntentError(ref, ss) ==
    IF ref # 0 /\ wsSendThrows(ss[ref]) THEN "InvalidStateError" ELSE NoError

sendIntent(intent) ==
    /\ updates' = sendIntentUpdates(updates)
    /\ summary' = sendIntentSummary(summary)
    /\ wire' = sendIntentWire(wire, wsRef, socks, intent)
    /\ Len(wire') <= MaxSends
    /\ last' = [op |-> "sendIntent",
                error |-> sendIntentError(wsRef, socks),
                open |-> IsOpen(wsRef),
                connected |-> (status = "connected"),
                hadHistory |-> (updates # <<>>),
                hadResult |-> (summary # NULL),
                sent |-> (wire' # wire)]
    /\ received' = <<>>
    /\ UNCHANGED <<wsRef, socks, timers, status, mounted, mounts>>

\* The hook's sendIntent callback invoked by a holder of it.
SendIntentCall == \E intent \in Intents : sendIntent(intent)

(***************************************************************************)
(* App and IntentBar: the form's submit handler.                           *)
(***************************************************************************)
\* App.tsx: disabled={status !== "connected"}
disabled == status # "connected"

\* The text consists of white space only (the empty text included).
IsBlank(value) == \A i \in 1..Len(value) : value[i] = SP

IntentBarRejectsBlankOnly(value) == trim(value) = <<>>

IntentBarRejects(value) == trim(value) = <<>> \/ disabled

\* App.handleSubmit: sendIntent(intent) (and setShowHUD(true), which only
\* decides whether the HUD is on screen and is not part of the model).
App_handleSubmit(intent) == sendIntent(intent)

\* IntentBar.handleSubmit: if (!trimmed || disabled) return; onSubmit(trimmed)
IntentBar_handleSubmit(value) ==
    IF IntentBarRejects(value)
    THEN /\ last' = [op |-> "handleSubmit", blank |-> IsBlank(value)]
         /\ UNCHANGED <<wsRef, socks, timers, status, updates, summary, wire,
                        mounted, mounts, received>>
    ELSE App_handleSubmit(trim(value))

FormSubmit == \E value \in Inputs : IntentBar_handleSubmit(value)

\* Everything that can happen apart from a run of the effect.
Step ==
    \/ EffectCleanup
    \/ \E s \in 1..Len(socks) : OpenEvent(s)
    \/ \E s \in 1..Len(socks), data \in Frames : MessageEvent(s, data)
    \/ \E s \in 1..Len(socks) : CloseEvent(s)
    \/ \E s \in 1..Len(socks) : ErrorEvent(s)
    \/ Tick
    \/ \E t \in timers : TimerFires(t)
    \/ FormSubmit
    \/ SendIntentCall

Next ==
    \/ EffectMount
    \/ Step

Spec == Init /\ [][Next]_vars

\* One lifetime of the surface: the effect runs once and is never re-run.
FirstMount == mounts = 0 /\ EffectMount

NextMountOnce ==
    \/ FirstMount
    \/ Step

SpecMountOnce == Init /\ [][NextMountOnce]_vars

(***************************************************************************)
(* One lifetime of a surface on which no intent is ever submitted: the     *)
(* connection lives its life and the backend sends whatever it sends.      *)
(***************************************************************************)
IdleStep ==
    \/ FirstMount
    \/ EffectCleanup
    \/ \E s \in 1..Len(socks) : OpenEvent(s)
    \/ \E s \in 1..Len(socks), data \in Frames : MessageEvent(s, data)
    \/ \E s \in 1..Len(socks) : CloseEvent(s)
    \/ \E s \in 1..Len(socks) : ErrorEvent(s)
    \/ Tick
    \/ \E t \in timers : TimerFires(t)

IdleSpec == Init /\ [][IdleStep]_vars

(***************************************************************************)
(* The connection manager alone, under the scheduling the platform         *)
(* guarantees and a backend that eventually accepts connections.  The      *)
(* session actions (frames, submits) are left out: they neither read  *)
(* nor write wsRef, socks, timers, status, mounted and mounts beyond what  *)
(* is kept here, so they cannot enable, disable or undo a step below.      *)
(***************************************************************************)
\* The backend refuses at most the first MaxSockets - 1 handshakes.
BackendAccepts(s) ==
    socks[s].readyState = "CONNECTING" => Len(socks) < MaxSockets

RetryStep ==
    \/ EffectMount
    \/ EffectCleanup
    \/ \E s \in 1..Len(socks) : OpenEvent(s)
    \/ \E s \in 1..Len(socks) : CloseEvent(s)
    \/ \E s \in 1..Len(socks) : BackendAccepts(s) /\ ErrorEvent(s)
    \/ Tick
    \/ \E t \in timers : TimerFires(t)

\* Time passes, a due timer's callback is run, and a handshake that is not
\* refused completes.
RetryFairness ==
    /\ WF_vars(Tick)
    /\ WF_vars(\E t \in timers : TimerFires(t))
    /\ \A s \in 1..MaxSockets : WF_vars(s <= Len(socks) /\ OpenEvent(s))

RetrySpec == Init /\ [][RetryStep]_vars /\ RetryFairness

(***************************************************************************)
(* AgentHUD: what the panel renders from its props updates and summary.    *)
(* App renders the panel while showHUD is set, which every form submit     *)
(* does; the operators give the panel's content when it is on screen.      *)
(***************************************************************************)
\* const latest = updates[updates.length - 1] ?? null
latestFirst(us) == IF Len(us) > 0 THEN us[1] ELSE JsNull

latest(us) == IF Len(us) > 0 THEN us[Len(us)] ELSE JsNull

\* STATUS_COLORS[t.status] ?? "bg-zen-muted/40"
STATUS_COLORS(st) ==
    CASE st = "pending" -> "bg-zen-muted/40"
      [] st = "running" -> "bg-yellow-500/80 animate-pulse"
      [] st = "done" -> "bg-emerald-500/80"
      [] st = "failed" -> "bg-red-500/80"
      [] OTHER -> "bg-zen-muted/40"

\* One row of the subtask list.
SubtaskRow(t) ==
    [key |-> t.id, dot |-> STATUS_COLORS(t.status),
     strike |-> (t.status = "done"), text |-> t.desc]

\* latest?.sub_tasks && latest.sub_tasks.length > 0 && latest.sub_tasks.map(...)
HUDSubtasks(us) ==
    LET l == latest(us) IN
    IF l # JsNull /\ Len(l.sub_tasks) > 0
    THEN [i \in 1..Len(l.sub_tasks) |-> SubtaskRow(l.sub_tasks[i])]
    ELSE <<>>

\* NODE_LABELS[u.node_status] ?? u.node_status
NODE_LABELS(ns) ==
    CASE ns = "parse_intent" -> "Planning"
      [] ns = "browser_action" -> "Browsing"
      [] ns = "self_correct" -> "Verifying"
      [] ns = "advance" -> "Next task"
      [] ns = "summarize" -> "Summarizing"
      [] ns = "done" -> "Complete"
      [] OTHER -> ns

\* The thought stream: updates.map(...), one entry per element of updates.
HUDThoughts(us) ==
    [i \in 1..Len(us) |->
        [label |-> NODE_LABELS(us[i].node_status), thought |-> us[i].thought]]

\* JavaScript truthiness of summary (string | null): null and the empty
\* string are falsy.
Truthy(sm) == sm # NULL /\ sm # ""

\* {summary && <Result panel>}
HUDResultShown(sm) == Truthy(sm)

\* {latest && !summary && <Status footer>}
HUDStatusShown(us, sm) == latest(us) # JsNull /\ ~Truthy(sm)

\* The footer's text: the label and, if total_tasks > 0, the task counter.
HUDStatusLine(us) ==
    LET l == latest(us) IN
    [label |-> NODE_LABELS(l.node_status),
     task |-> IF l.total_tasks > 0
              THEN <<l.current_task_index + 1, l.total_tasks>>
              ELSE <<>>]

(***************************************************************************)
(* The panel fed by one open connection: the surface is mounted, its       *)
(* socket is open, and the backend sends any of HudFrames, in any order,   *)
(* between form submits.                                                   *)
(***************************************************************************)
HudInit ==
    /\ wsRef = 1
    /\ socks = <<[NewWebSocket EXCEPT !.readyState = "OPEN"]>>
    /\ timers = {}
    /\ status = onopenStatus("connecting")
    /\ updates = <<>>
    /\ summary = NULL
    /\ wire = <<>>
    /\ mounted = TRUE
    /\ mounts = 1
    /\ last = NoCall
    /\ received = <<>>

HudNext ==
    \/ \E data \in HudFrames : MessageEvent(wsRef, data)
    \/ FormSubmit

HudSpec == HudInit /\ [][HudNext]_vars

(***************************************************************************)
(* Properties.                                                             *)
(***************************************************************************)
Disposed == ~mounted /\ mounts > 0

CurrentClosed == wsRef # 0 /\ socks[wsRef].readyState = "CLOSED"

\* C1 (reset on submit): after sendIntent has run with the current socket
\* OPEN, updates is empty and summary is null; and in the state in which an
\* intent message has just been put on the wire, updates is already empty and
\* summary is already null (the clear is not later than the send).
ResetOnSubmit ==
    /\ (last.op = "sendIntent" /\ last.open) =>
           (updates = <<>> /\ summary = NULL /\ last.sent)
    /\ (last.op = "sendIntent" /\ last.sent) =>
           (updates = <<>> /\ summary = NULL)

ResetOnSubmitWitness ==
    /\ last.op = "sendIntent"
    /\ last.open /\ last.sent /\ last.hadHistory /\ last.hadResult
    /\ updates = <<>> /\ summary = NULL
    /\ wire # <<>>

\* C2 (submit gating): after sendIntent has run while status was not
\* "connected", no message was put on the wire and history and result are as
\* they were before the call.
SubmitGating ==
    (last.op = "sendIntent" /\ ~last.connected) =>
        /\ ~last.sent
        /\ last.hadHistory => updates # <<>>
        /\ last.hadResult => summary # NULL

\* C3 (scoped teardown): while the surface stays disposed no reconnect timer
\* is pending and no step creates a socket.
ScopedTeardown ==
    [][(Disposed /\ ~mounted') =>
           (timers = {} /\ timers' = {} /\ Len(socks') = Len(socks))]_vars

\* C4 (reconnect timing): a connection attempt made by a reconnect timer
\* while the current connection is closed happens only when the delay since
\* that close has fully elapsed, and it is made by that disconnect's own
\* timer, which it uses up: one disconnect, one attempt, not before the delay.
ReconnectTiming ==
    [][(Len(socks') > Len(socks) /\ mounts' = mounts /\ CurrentClosed) =>
           /\ [sock |-> wsRef, remaining |-> 0] \in timers
           /\ timers' = timers \ { [sock |-> wsRef, remaining |-> 0] }]_vars

\* C5 (stale-connection isolation): an event of a socket that is no longer
\* the current one changes neither status, updates, summary nor the pending
\* timers; in particular, while the current socket is not OPEN (so that no
\* frame can come from it) updates and summary change only by being reset.
StaleIsolation ==
    [][/\ (\E s \in 1..Len(socks) : s # wsRef /\ socks'[s] # socks[s]) =>
              UNCHANGED <<status, updates, summary, timers>>
       /\ ~IsOpen(wsRef) =>
              (updates' \in { updates, <<>> } /\ summary' \in { summary, NULL })]_vars

\* C6 (append-only until reset): updates is exactly the sequence of
\* well-formed state_update frames delivered since the last sendIntent call,
\* in arrival order, whatever their node_status and whether or not a result
\* has arrived.
AppendOnlyUntilReset == updates = received

AppendOnlyWitness ==
    /\ Len(updates) = 2
    /\ updates[1].node_status = "browser_action"
    /\ updates[2].node_status = "parse_intent"
    /\ summary # NULL
    /\ wire # <<>>
    /\ last.op = "onmessage" /\ last.recognized

\* C7 (malformed frame is a no-op): delivering a frame that is not JSON, or
\* JSON whose type is neither state_update nor result (null included),
\* changes nothing of the hook's state, and the frames delivered around it
\* are folded as if it had not come.
MalformedFrameNoOp ==
    [][(last'.op = "onmessage" /\ ~last'.recognized) =>
           /\ UNCHANGED <<updates, summary, status, wsRef, socks, timers, wire>>
           /\ updates' = received']_vars

MalformedFrameWitness ==
    /\ last.op = "onmessage" /\ ~last.recognized
    /\ updates # <<>>
    /\ summary # NULL

\* C8 (best-effort send): sendIntent called while the current socket is not
\* OPEN throws nothing and puts nothing on the wire, and a message reaches
\* the wire only in the sendIntent call that was made with the socket OPEN
\* (a dropped message is never delivered later).
BestEffortSend ==
    [][/\ (last'.op = "sendIntent" /\ ~last'.open) =>
              (last'.error = NoError /\ wire' = wire)
       /\ (wire' # wire) => (last'.op = "sendIntent" /\ last'.open)]_vars

\* C9 (connectivity signal): status changes only when a socket opens or
\* closes; the current socket's open sets it to "connected", the current
\* socket's close (with or without error) sets it to "disconnected"; and it
\* is "connected" only while the current socket has opened and not closed.
ConnectivitySignal ==
    [][/\ (status' # status) => (socks' # socks)
       /\ (wsRef # 0 /\ socks[wsRef].readyState = "CONNECTING"
             /\ socks'[wsRef].readyState = "OPEN") => status' = "connected"
       /\ (wsRef # 0 /\ socks[wsRef].readyState # "CLOSED"
             /\ socks'[wsRef].readyState = "CLOSED") => status' = "disconnected"
       /\ (status' = "connected") =>
              (wsRef' # 0 /\ socks'[wsRef'].readyState \in { "OPEN", "CLOSING" })]_vars

\* C10 (indefinite retry): whenever the surface is mounted and the current
\* connection is closed, a further connection attempt is eventually made,
\* however many attempts have failed before (as long as the model may still
\* create a socket); and, the backend eventually accepting, status
\* eventually becomes "connected" unless the surface is disposed first.
IndefiniteRetry ==
    /\ \A n \in 1..(MaxSockets - 1) :
           (mounted /\ CurrentClosed /\ Len(socks) = n) ~> (Len(socks) > n)
    /\ (mounted /\ CurrentClosed /\ Len(socks) < MaxSockets) ~>
           (status = "connected" \/ ~mounted)

IndefiniteRetryWitness ==
    /\ mounted /\ mounts = 1
    /\ Len(socks) = MaxSockets
    /\ \A i \in 1..(MaxSockets - 1) : socks[i].readyState = "CLOSED"
    /\ socks[MaxSockets].readyState = "OPEN"
    /\ wsRef = MaxSockets
    /\ status = "connected"
    /\ timers = {}

\* C11 (connect is idempotent while open): every call of connect() made while
\* the current connection is open (a reconnect timer firing, or a run of the
\* effect) creates no socket, replaces no socket or handler, and changes
\* neither status, history, result nor the wire; this holds for every such
\* call, however many have been made before.
ConnectCalled == (timers' # timers /\ timers' \subseteq timers) \/ mounts' # mounts

ConnectIdempotentWhenOpen ==
    [][(ConnectCalled /\ IsOpen(wsRef)) =>
           UNCHANGED <<wsRef, socks, status, updates, summary, wire>>]_vars

\* The second run of the effect made socket 2, and the timer of socket 1
\* has fired without making a third one: socket 2 was open when it fired.
ConnectIdempotentWitness ==
    /\ mounts = 2 /\ mounted
    /\ Len(socks) = 2
    /\ socks[1].readyState = "CLOSED"
    /\ wsRef = 2 /\ IsOpen(wsRef)
    /\ timers = {}

\* p is value without its leading and trailing white space.
IsTrimOf(p, value) ==
    \E i, j \in 0..Len(value) :
        /\ i + Len(p) + j = Len(value)
        /\ SubSeq(value, i + 1, i + Len(p)) = p
        /\ \A k \in 1..i : value[k] = SP
        /\ \A k \in (Len(value) - j + 1)..Len(value) : value[k] = SP
        /\ p # <<>> => (p[1] # SP /\ p[Len(p)] # SP)

\* C12 (UI submission guard): a form submit whose text is empty or white
\* space only, or that is made while status is not "connected" (the bar is
\* disabled), calls nothing: connection, status, history, result and wire
\* stay as they were. Any other form submit calls the submit operation, and
\* the payload it puts on the wire is the text without its leading and
\* trailing white space.
SubmissionGuard ==
    [][\A value \in Inputs :
           (last'.op \in { "handleSubmit", "sendIntent" }
                /\ IntentBar_handleSubmit(value)) =>
               IF IsBlank(value) \/ status # "connected"
               THEN /\ last'.op = "handleSubmit"
                    /\ UNCHANGED <<wsRef, socks, timers, status, updates,
                                   summary, wire>>
               ELSE /\ last'.op = "sendIntent"
                    /\ (wire' # wire) =>
                           IsTrimOf(wire'[Len(wire')].payload, value)]_vars

\* A form submit with a non-blank text has just been turned down because
\* the bar is disabled, with history and result in place.
SubmissionGuardWitness ==
    /\ last.op = "handleSubmit" /\ ~last.blank
    /\ status # "connected"
    /\ updates # <<>> /\ summary # NULL

\* C13 (replacement, not merge): whenever history is non-empty the subtask
\* list on the panel is, row by row and in the same order, the sub_tasks of
\* the last history element, and no row shows a subtask that occurs only in
\* an earlier element; when history is empty the list is empty.
SubtasksAreLatest ==
    IF updates = <<>>
    THEN HUDSubtasks(updates) = <<>>
    ELSE LET items == updates[Len(updates)].sub_tasks
             rows == HUDSubtasks(updates)
         IN /\ Len(rows) = Len(items)
            /\ \A i \in 1..Len(items) :
                   /\ rows[i].key = items[i].id
                   /\ rows[i].text = items[i].desc
                   /\ rows[i].dot = STATUS_COLORS(items[i].status)
            /\ \A k \in 1..(Len(updates) - 1) :
                   \A j \in 1..Len(updates[k].sub_tasks) :
                       (\A i \in 1..Len(items) :
                            items[i].id # updates[k].sub_tasks[j].id)
                           => \A i \in 1..Len(rows) :
                                  rows[i].key # updates[k].sub_tasks[j].id

\* The earlier frame planned subtasks 1 and 2, the last one only subtask 1:
\* the list has the single row of subtask 1, pending.
SubtasksAreLatestWitness ==
    /\ updates = <<StateUpdateAdvance, StateUpdateParse>>
    /\ Len(HUDSubtasks(updates)) = 1
    /\ HUDSubtasks(updates)[1].key = 1
    /\ HUDSubtasks(updates)[1].dot = "bg-zen-muted/40"

\* The states of the end-to-end scenario, one per event: every variable of
\* the hook and the wire are fixed by sock (state of the only socket), st
\* (status), us (updates), sm (summary) and w (wire).
ScenarioState(n, sock, st, us, sm, w) ==
    /\ mounts = n /\ mounted = (n = 1)
    /\ wsRef = Len(sock) /\ socks = sock
    /\ timers = {}
    /\ status = st /\ updates = us /\ summary = sm /\ wire = w

ScenarioSocket(rs) == <<[NewWebSocket EXCEPT !.readyState = rs]>>

ScenarioResult == [type |-> "result", summary |-> "Found RTX 5070 at $599"]

ScenarioWire == <<IntentMessage(FindCheapestGpu)>>

ScenarioFresh == ScenarioState(0, <<>>, "connecting", <<>>, NULL, <<>>)

ScenarioMounted ==
    ScenarioState(1, ScenarioSocket("CONNECTING"), "connecting", <<>>, NULL, <<>>)

ScenarioOpen ==
    ScenarioState(1, ScenarioSocket("OPEN"), "connected", <<>>, NULL, <<>>)

ScenarioSubmitted ==
    ScenarioState(1, ScenarioSocket("OPEN"), "connected", <<>>, NULL, ScenarioWire)

ScenarioPlanned ==
    ScenarioState(1, ScenarioSocket("OPEN"), "connected", <<StateUpdateParse>>,
                  NULL, ScenarioWire)

ScenarioBrowsing ==
    ScenarioState(1, ScenarioSocket("OPEN"), "connected",
                  <<StateUpdateParse, StateUpdateBrowse>>, NULL, ScenarioWire)

\* What the scenario is said to end in.
ScenarioEnd ==
    /\ updates = <<StateUpdateParse, StateUpdateBrowse>>
    /\ HUDThoughts(updates) = <<[label |-> "Planning", thought |-> "planning"],
                                [label |-> "Browsing", thought |-> "browsing"]>>
    /\ Len(HUDSubtasks(updates)) = 1
    /\ HUDSubtasks(updates)[1].key = 1
    /\ HUDSubtasks(updates)[1].dot = STATUS_COLORS("running")
    /\ summary = "Found RTX 5070 at $599"
    /\ HUDResultShown(summary)
    /\ ~HUDStatusShown(updates, summary)
    /\ wire = ScenarioWire
    /\ status = "connected" /\ IsOpen(wsRef)

\* C14 (end-to-end trace): from the fresh surface, each event of the
\* scenario mount, open, submit "find cheapest gpu", state_update
\* (parse_intent, subtask 1 pending), state_update (browser_action, subtask 1
\* running), result "Found RTX 5070 at $599" leads from the state the
\* previous event produced to the next one, and the last event ends in a
\* state with exactly these two history entries in this order, subtask 1
\* shown as running, the result panel shown with that summary, the status
\* line hidden and exactly one intent message on the wire.
EndToEndTrace ==
    [][/\ (ScenarioFresh /\ EffectMount) => ScenarioMounted'
       /\ (ScenarioMounted /\ OpenEvent(1)) => ScenarioOpen'
       /\ (ScenarioOpen /\ IntentBar_handleSubmit(FindCheapestGpu))
              => ScenarioSubmitted'
       /\ (ScenarioSubmitted /\ MessageEvent(1, JsonText(StateUpdateParse)))
              => ScenarioPlanned'
       /\ (ScenarioPlanned /\ MessageEvent(1, JsonText(StateUpdateBrowse)))
              => ScenarioBrowsing'
       /\ (ScenarioBrowsing /\ MessageEvent(1, JsonText(ScenarioResult)))
              => ScenarioEnd']_vars

\* The state the scenario ends in, the result frame being the last event.
EndToEndTraceWitness ==
    /\ ScenarioState(1, ScenarioSocket("OPEN"), "connected",
                     <<StateUpdateParse, StateUpdateBrowse>>,
                     "Found RTX 5070 at $599", ScenarioWire)
    /\ ScenarioEnd
    /\ last.op = "onmessage" /\ last.recognized

\* C15 (result only after submission): on a surface on which no intent has
\* been submitted, result is absent, whatever frames have arrived.
ResultOnlyAfterSubmission == summary = NULL

\* A step of the connection's life: a socket is created, opens, closes or
\* fails, a timer is set, runs down or fires, the effect runs or is cleaned up.
LifecycleStep ==
    \/ socks' # socks \/ wsRef' # wsRef \/ status' # status
    \/ timers' # timers \/ mounts' # mounts \/ mounted' # mounted

IsPrefix(a, b) == Len(a) <= Len(b) /\ SubSeq(b, 1, Len(a)) = a

\* C16 (connection loss does not touch session state): every connection
\* lifecycle step leaves history and result unchanged; history grows by one
\* frame at a time, only when a frame arrives, and the only step after
\* which an element of history is gone is a submission, which empties it.
LifecycleKeepsSession ==
    [][/\ LifecycleStep => UNCHANGED <<updates, summary>>
       /\ IsPrefix(updates, updates') =>
              /\ Len(updates') <= Len(updates) + 1
              /\ (updates' # updates) => last'.op = "onmessage"
       /\ ~IsPrefix(updates, updates') =>
              (last'.op = "sendIntent" /\ updates' = <<>>)]_vars

\* One effect run; socket 1, the only one that can have carried frames, is
\* lost and socket 2 is being connected: history and result are still there.
LifecycleKeepsSessionWitness ==
    /\ mounts = 1
    /\ Len(socks) = 2 /\ wsRef = 2
    /\ socks[1].readyState = "CLOSED"
    /\ socks[2].readyState = "CONNECTING"
    /\ Len(updates) = MaxHistory /\ summary # NULL
    /\ updates = received

\* C17 (transport error equals graceful close): a transport error on the
\* current connection leaves that socket CLOSED and status "disconnected"
\* and sets exactly one reconnect timer, of the full delay, although both
\* the error and the close handler run; on a socket that could also have
\* closed gracefully (OPEN or CLOSING) it changes the connection, the
\* timers and the session exactly as the graceful close would.
ErrorEqualsClose ==
    [][\A s \in 1..Len(socks) :
           (last'.op = "onerror" /\ s = wsRef /\ ErrorEvent(s)) =>
               /\ socks'[s].readyState = "CLOSED"
               /\ status' = "disconnected"
               /\ Cardinality(timers') = Cardinality(timers) + 1
               /\ timers' \ timers =
                      { [sock |-> s, remaining |-> RECONNECT_INTERVAL_MS] }
               /\ socks[s].readyState \in { "OPEN", "CLOSING" } =>
                      /\ socks' = [socks EXCEPT ![s].readyState = "CLOSED"]
                      /\ status' = oncloseStatus(status)
                      /\ timers' = oncloseTimers(timers, s)
                      /\ UNCHANGED <<wsRef, updates, summary, wire, mounted,
                                     mounts, received>>]_vars

\* The only connection of a mounted surface has failed while open: it is
\* closed, status is "disconnected" and one timer of the full delay is set.
ErrorEqualsCloseWitness ==
    /\ last.op = "onerror"
    /\ mounted /\ mounts = 1 /\ Len(socks) = 1 /\ wsRef = 1
    /\ socks[1].readyState = "CLOSED"
    /\ status = "disconnected"
    /\ timers = { [sock |-> 1, remaining |-> RECONNECT_INTERVAL_MS] }
    /\ updates # <<>>

\* C18 (a result keeps history): a result frame arriving on an open socket
\* sets result to the summary of that frame, whether or not a result was
\* there before, and leaves history and status unchanged; and every call of
\* the submit operation ends with empty history and no result.
ResultKeepsHistory ==
    [][/\ \A s \in 1..Len(socks), r \in Results :
              (last'.op = "onmessage" /\ MessageEvent(s, JsonText(r))) =>
                  (summary' = r.summary /\ UNCHANGED <<updates, status>>)
       /\ (last'.op = "sendIntent") => (updates' = <<>> /\ summary' = NULL)]_vars

\* A result has just arrived, after the whole history, which is kept.
ResultKeepsHistoryWitness ==
    /\ last.op = "onmessage" /\ last.recognized
    /\ summary = "Found RTX 5070 at $599"
    /\ Len(updates) = MaxHistory /\ updates = received
    /\ status = "connected" /\ IsOpen(wsRef)

\* C19 (status line only while result is absent): in every state in which
\* result is present, whatever its summary string, the latest-status line
\* is not displayed.
StatusLineOnlyWithoutResult ==
    (summary # NULL) => ~HUDStatusShown(updates, summary)

\* The connection instances that are connecting, open or closing.
LiveSockets == { s \in 1..Len(socks) : socks[s].readyState # "CLOSED" }

\* C20 (single connection): while the surface, whose effect runs once, is
\* mounted, there is exactly one of: a connection instance that is not
\* closed, or a pending reconnect timer; never two live instances, never
\* two timers, never a timer together with a live instance.
SingleConnection ==
    mounted => Cardinality(LiveSockets) + Cardinality(timers) = 1

\* After two losses the surface holds its third connection and nothing
\* else: the first two sockets are closed and no timer is pending.
SingleConnectionWitness ==
    /\ mounted /\ mounts = 1
    /\ Len(socks) = 3 /\ wsRef = 3
    /\ LiveSockets = { 3 }
    /\ timers = {}

====
